---- MODULE Spec2Model ----
(***************************************************************************)
(* Model of the wind-downscaling GAN repository:                           *)
(*   - GAN (src/src/downscaling/gan/ganbase.py): compile precondition,     *)
(*     train_step, test_step;                                              *)
(*   - get_predicted_map_Switzerland (src/analyse_run_results.py): tiling  *)
(*     of a raster with the crop and the overlap strategy;                 *)
(*   - compute_metrics_val_set (src/analyse_run_results.py): the loop over *)
(*     the saved checkpoints.                                              *)
(* Each part has its own specification (SpecGAN, SpecTile, SpecEval); the  *)
(* variables of the other parts stay at their initial value.               *)
(***************************************************************************)
EXTENDS Integers, Sequences, FiniteSets, TLC

VARIABLES
    \* ---- GAN (ganbase.py)
    ganCompiled,      \* GAN.compile was called (Model.compile of the GAN itself)
    genCompiled,      \* generator.compile was called
    discCompiled,     \* discriminator.compile was called
    n_critic,         \* self._n_critic
    genW,             \* generator.trainable_weights (abstract value)
    discW,            \* discriminator.trainable_weights (abstract value)
    genOptIter,       \* generator.optimizer.iterations: number of apply_gradients
    discOptIter,      \* discriminator.optimizer.iterations
    pc,               \* position in the running call
    t,                \* loop variable of the critic sub-loop
    batch,            \* the data of the running call
    gradsD,           \* grads_parameters (None before the first backward pass)
    gradsG,           \* gen_grads
    scores,           \* the scores last computed: batch and weights they come from
    metricAcc,        \* self.compiled_metrics: number of update_state, last scores
    genMetricAcc,     \* self.generator.compiled_metrics
    ret,              \* the mapping returned by the step
    err,              \* the exception that ended the call, "none" otherwise
    entry,            \* snapshot taken when the step was entered
    calls,            \* number of steps started
    running,          \* the step running or last run: "none", "train", "test"
    metricsReg,       \* names of the metrics of the GAN (self.metrics), in order
    genMetricsReg,    \* names of the metrics of the generator (self.generator.metrics)
    events,           \* what the current step has done so far, in order
    \* ---- get_predicted_map_Switzerland (analyse_run_results.py)
    handle_borders, pixels_lat, pixels_lon, time_window, img_size, sequence_size,
    squares,          \* the dict of tiles: key -> index ranges
    tpc,              \* position in get_predicted_map_Switzerland
    terr,             \* the exception raised (type, message), NoError otherwise
    \* ---- get_predicted_map_Switzerland: prediction and stitching
    average_preds, gen_only,
    ensemble_size,    \* the ensemble size the caller wants (0: no ensemble); the
                      \* function has no such parameter, it is given average_preds
    sim,              \* loop variable `_` of the ensemble loop
    noiseDraws,       \* number of noise tensors drawn from network.noise_generator
    pred,             \* the list of predictions: the noise each pass was run with
    predictions,      \* the prediction that is stitched: the passes it is computed from
    std_pred,         \* the standard deviation over the passes, when computed
    tresult,          \* the returned pair (predicted_data, predicted_std)
    \* ---- GAN.save_weights / GAN.load_weights
    files,            \* the file system: path of a checkpoint -> what was written
    filepath,         \* the filepath argument of the last call
    io,               \* the writes or reads of the last call, in order
    saved,            \* per checkpoint root, the weights of the GAN at its last save
    ppc, perr,
    \* ---- the gradient penalty of GAN.train_step (tensor values)
    gradients_image,  \* gradient of the critic's output in the interpolated image, then
                      \* (line 36) its norms, kept as their squares
    gradient_reg,     \* the penalty: gamma and the norms it averages over
    gpc,
    \* ---- get_predicted_map_Switzerland: the normalisation (tensor values)
    tensors,          \* the stacked array of the tiles
    tstats,           \* per element, the statistics it was normalised with
    npc,
    \* ---- make_discriminator (models.py): the spatial sizes
    low_res_size, high_res_size,
    xsize,            \* img_size(x), the spatial size of the main branch
    shortcut,         \* img_size(shortcut)
    convs,            \* the convolutions applied: kernel, strides, size of the input
    dpc, derr,
    \* ---- compute_metrics_val_set (analyse_run_results.py)
    saving_frequency, nb_epochs,
    epochs,           \* the array np.arange(...) iterated by the loop
    epochIdx,         \* position of the loop in epochs
    epoch,            \* loop variable
    preds,            \* predictions of the last inference pass (weights used)
    loaded,           \* epoch whose weights the network holds (0: initial weights)
    metrics_data,     \* list of one-row frames (the epoch that indexes each row)
    epc,              \* position in compute_metrics_val_set
    result,           \* the returned record
    eerr              \* the exception raised by compute_metrics_val_set, "none" otherwise

ganVars  == <<ganCompiled, genCompiled, discCompiled, n_critic, genW, discW,
              genOptIter, discOptIter,
              pc, t, batch, gradsD, gradsG, scores, metricAcc, genMetricAcc, ret, err,
              entry, calls, running, metricsReg, genMetricsReg, events>>
tileVars == <<handle_borders, pixels_lat, pixels_lon, time_window, img_size,
              sequence_size, squares, tpc, terr>>
evalVars == <<saving_frequency, nb_epochs, epochs, epochIdx, epoch, preds, loaded,
              metrics_data, epc, result, eerr>>
predVars == <<average_preds, gen_only, ensemble_size, sim, noiseDraws, pred,
              predictions, std_pred, tresult>>
persVars == <<files, filepath, io, saved, ppc, perr>>
penVars  == <<gradients_image, gradient_reg, gpc>>
normVars == <<tensors, tstats, npc>>
discVars == <<low_res_size, high_res_size, xsize, shortcut, convs, dpc, derr>>
vars     == <<ganVars, tileVars, evalVars, predVars, persVars, penVars, normVars, discVars>>

\* what the actions of one part leave alone
nonGanVars  == <<tileVars, evalVars, predVars, persVars, penVars, normVars, discVars>>
nonTileVars == <<ganVars, evalVars, predVars, persVars, penVars, normVars, discVars>>
nonEvalVars == <<ganVars, tileVars, predVars, persVars, penVars, normVars, discVars>>

(***************************************************************************)
(* Bounds of the model                                                     *)
(***************************************************************************)
MaxCritic == 3        \* n_critic ranges over 0..MaxCritic
WeightMod == 2        \* abstract weight values 0..WeightMod-1
MaxCalls  == 2        \* steps started in one behaviour
NBatches  == 2        \* distinct batches

Batches == 1..NBatches
Grads   == 0..(WeightMod - 1)
None    == "None"

\* no scores computed yet (the batches are numbered from 1)
NoScores == [batch |-> 0, genW |-> 0, discW |-> 0]
NoEntry  == [genW |-> 0, discW |-> 0, genOptIter |-> 0, discOptIter |-> 0,
             metricN |-> 0, genMetricN |-> 0]

(***************************************************************************)
(* GAN                                                                     *)
(***************************************************************************)

\* keras Model._assert_compile_was_called of a sub-model: raises RuntimeError
\* when compile was not called, returns None otherwise.
SubModelAssert(compiled) == IF compiled THEN None ELSE "RuntimeError"

\* Python's `a and b` over outcomes: an exception in a propagates; a falsy a
\* (None) is the result and b is not evaluated; otherwise the result is b.
PyAnd(a, b) == IF a = "RuntimeError" THEN "RuntimeError"
               ELSE IF a = None THEN a
               ELSE b

\* GAN._assert_compile_was_called
AssertCompileWasCalled(g, d) == PyAnd(SubModelAssert(g), SubModelAssert(d))

\* optimizer.apply_gradients on an abstract weight value
ApplyGradients(w, g) == (w + g) % WeightMod

GanInit ==
    /\ ganCompiled = FALSE
    /\ genCompiled \in BOOLEAN
    /\ discCompiled \in BOOLEAN
    /\ n_critic \in 0..MaxCritic
    /\ genW = 0 /\ discW = 0
    /\ genOptIter = 0 /\ discOptIter = 0
    /\ pc = "idle"
    /\ t = 0
    /\ batch = 0
    /\ gradsD = << >> /\ gradsG = << >>
    /\ scores = NoScores
    /\ metricAcc = [n |-> 0, last |-> NoScores]
    /\ genMetricAcc = [n |-> 0, last |-> NoScores]
    /\ ret = << >>
    /\ err = "none"
    /\ entry = NoEntry
    /\ calls = 0
    /\ running = "none"
    /\ metricsReg = << >> /\ genMetricsReg = << >>
    /\ events = << >>

GanIdle ==
    /\ ganCompiled = FALSE /\ genCompiled = TRUE /\ discCompiled = TRUE /\ n_critic = 1
    /\ genW = 0 /\ discW = 0 /\ genOptIter = 0 /\ discOptIter = 0
    /\ pc = "idle" /\ t = 0 /\ batch = 0 /\ gradsD = << >> /\ gradsG = << >>
    /\ scores = NoScores
    /\ metricAcc = [n |-> 0, last |-> NoScores]
    /\ genMetricAcc = [n |-> 0, last |-> NoScores]
    /\ ret = << >> /\ err = "none" /\ entry = NoEntry /\ calls = 0
    /\ running = "none"
    /\ metricsReg = << >> /\ genMetricsReg = << >>
    /\ events = << >>

Snapshot == [genW |-> genW, discW |-> discW, genOptIter |-> genOptIter,
             discOptIter |-> discOptIter, metricN |-> metricAcc.n,
             genMetricN |-> genMetricAcc.n]

\* the metrics given to GAN.compile: `metrics` (kept by the GAN itself) and
\* `generator_metrics` (kept by the generator), by name
MetricConfigs ==
    { [metrics |-> <<"score_fake", "score_real">>, generator_metrics |-> <<"acd", "lsd">>],
      [metrics |-> <<"acd">>,    generator_metrics |-> <<"acd">>],
      [metrics |-> << >>,        generator_metrics |-> <<"loss">>],
      [metrics |-> <<"g_acd">>,  generator_metrics |-> <<"acd">>],
      [metrics |-> <<"d_loss">>, generator_metrics |-> << >>] }

\* GAN.compile: compiles the GAN itself and both sub-models, which registers
\* the metrics
Compile ==
    /\ UNCHANGED nonGanVars
    /\ pc = "idle"
    /\ ~ganCompiled
    /\ ganCompiled' = TRUE
    /\ genCompiled' = TRUE
    /\ discCompiled' = TRUE
    /\ \E c \in MetricConfigs :
         /\ metricsReg' = c.metrics
         /\ genMetricsReg' = c.generator_metrics
    /\ UNCHANGED <<running, n_critic, genW, discW, genOptIter, discOptIter, pc, t,
                   batch, gradsD, gradsG, scores, metricAcc, genMetricAcc, ret, err,
                   entry, calls, events>>

\* the precondition check made before stepping
CheckCompiled ==
    /\ UNCHANGED nonGanVars
    /\ pc = "idle"
    /\ LET r == AssertCompileWasCalled(genCompiled, discCompiled) IN
         IF r = "RuntimeError"
         THEN pc' = "error" /\ err' = "RuntimeError"
         ELSE pc' = "ready" /\ err' = err
    /\ UNCHANGED <<running, ganCompiled, genCompiled, discCompiled, n_critic, genW,
                   discW, genOptIter, discOptIter, t, batch, gradsD, gradsG, scores,
                   metricAcc, genMetricAcc, ret, entry, calls, metricsReg,
                   genMetricsReg, events>>

\* train_step, lines 22-24: unpack the batch
TrainStepEnter ==
    /\ UNCHANGED nonGanVars
    /\ pc = "ready"
    /\ events' = << >>
    /\ calls < MaxCalls
    /\ \E b \in Batches : batch' = b
    /\ running' = "train"
    /\ calls' = calls + 1
    /\ entry' = Snapshot
    /\ t' = 0
    /\ gradsD' = << >> /\ gradsG' = << >> /\ scores' = NoScores /\ ret' = << >>
    /\ pc' = "critic_head"
    /\ UNCHANGED <<ganCompiled, genCompiled, discCompiled, n_critic, genW, discW,
                   genOptIter, discOptIter, metricAcc, genMetricAcc, err, metricsReg,
                   genMetricsReg>>

InRangeInclusive(i, n) == i <= n

\* line 26: range(n) yields i while i < n
InRange(i, n) == i < n

\* one thing train_step does, in iteration i of the critic sub-loop or, for
\* i = n_critic, after it
Event(e, i) == [ev |-> e, t |-> i]

ScoreBeforeStep(b, gw, dw) == [batch |-> b, genW |-> entry.genW, discW |-> entry.discW]

\* lines 40-43, 52-54, 60-62: the scores of batch b are computed by the
\* sub-models as they are when called
Score(b, gw, dw) == [batch |-> b, genW |-> gw, discW |-> dw]

DiscriminatorStepAllWeights(gw, dw, g) ==
    [genW |-> ApplyGradients(gw, g), discW |-> ApplyGradients(dw, g)]

\* line 47: the optimizer is given self.discriminator.trainable_weights only
DiscriminatorStep(gw, dw, g) == [genW |-> gw, discW |-> ApplyGradients(dw, g)]

\* line 57: the optimizer is given self.generator.trainable_weights only
GeneratorStep(gw, dw, g) == [genW |-> ApplyGradients(gw, g), discW |-> dw]

\* line 26: for t in range(self._n_critic)
CriticHead ==
    /\ UNCHANGED nonGanVars
    /\ pc = "critic_head"
    /\ pc' = IF InRange(t, n_critic) THEN "critic_gp" ELSE "gen_fwd"
    /\ UNCHANGED <<running, ganCompiled, genCompiled, discCompiled, n_critic, genW,
                   discW, genOptIter, discOptIter, t, batch, gradsD, gradsG, scores,
                   metricAcc, genMetricAcc, ret, err, entry, calls, metricsReg,
                   genMetricsReg, events>>

\* lines 28-37: noise, fake image, interpolation, gradient penalty
CriticGradientPenalty ==
    /\ UNCHANGED nonGanVars
    /\ pc = "critic_gp"
    /\ events' = Append(events, Event("gradient_penalty", t))
    /\ pc' = "critic_fwd"
    /\ UNCHANGED <<running, ganCompiled, genCompiled, discCompiled, n_critic, genW,
                   discW, genOptIter, discOptIter, t, batch, gradsD, gradsG, scores,
                   metricAcc, genMetricAcc, ret, err, entry, calls, metricsReg,
                   genMetricsReg>>

\* lines 39-45: forward pass of the discriminator and its compiled loss;
\* compiled_loss is None while the discriminator is not compiled
CriticForward ==
    /\ UNCHANGED nonGanVars
    /\ pc = "critic_fwd"
    /\ events' = Append(events, Event("d_forward", t))
    /\ IF discCompiled
       THEN /\ scores' = Score(batch, genW, discW)
            /\ pc' = "critic_bwd" /\ err' = err
       ELSE /\ scores' = scores
            /\ pc' = "error" /\ err' = "TypeError"
    /\ UNCHANGED <<running, ganCompiled, genCompiled, discCompiled, n_critic, genW,
                   discW, genOptIter, discOptIter, t, batch, gradsD, gradsG, metricAcc,
                   genMetricAcc, ret, entry, calls, metricsReg, genMetricsReg>>

\* line 46: gradient of the loss with respect to the discriminator weights
CriticBackward ==
    /\ UNCHANGED nonGanVars
    /\ pc = "critic_bwd"
    /\ events' = Append(events, Event("d_backward", t))
    /\ \E g \in Grads : gradsD' = <<g>>
    /\ pc' = "critic_apply"
    /\ UNCHANGED <<running, ganCompiled, genCompiled, discCompiled, n_critic, genW,
                   discW, genOptIter, discOptIter, t, batch, gradsG, scores, metricAcc,
                   genMetricAcc, ret, err, entry, calls, metricsReg, genMetricsReg>>

\* line 47: discriminator.optimizer.apply_gradients, then the next iteration
CriticApply ==
    /\ UNCHANGED nonGanVars
    /\ pc = "critic_apply"
    /\ events' = Append(events, Event("d_apply", t))
    /\ discW' = DiscriminatorStep(genW, discW, gradsD[1]).discW
    /\ genW' = DiscriminatorStep(genW, discW, gradsD[1]).genW
    /\ discOptIter' = discOptIter + 1
    /\ t' = t + 1
    /\ pc' = "critic_head"
    /\ UNCHANGED <<running, ganCompiled, genCompiled, discCompiled, n_critic,
                   genOptIter, batch, gradsD, gradsG, scores, metricAcc, genMetricAcc,
                   ret, err, entry, calls, metricsReg, genMetricsReg>>

\* lines 50-55: forward pass of the generator, scored by the discriminator
GenForward ==
    /\ UNCHANGED nonGanVars
    /\ pc = "gen_fwd"
    /\ events' = Append(events, Event("g_forward", t))
    /\ scores' = Score(batch, genW, discW)
    /\ pc' = "gen_bwd"
    /\ UNCHANGED <<running, ganCompiled, genCompiled, discCompiled, n_critic, genW,
                   discW, genOptIter, discOptIter, t, batch, gradsD, gradsG, metricAcc,
                   genMetricAcc, ret, err, entry, calls, metricsReg, genMetricsReg>>

\* line 56
GenBackward ==
    /\ UNCHANGED nonGanVars
    /\ pc = "gen_bwd"
    /\ events' = Append(events, Event("g_backward", t))
    /\ \E g \in Grads : gradsG' = <<g>>
    /\ pc' = "gen_apply"
    /\ UNCHANGED <<running, ganCompiled, genCompiled, discCompiled, n_critic, genW,
                   discW, genOptIter, discOptIter, t, batch, gradsD, scores, metricAcc,
                   genMetricAcc, ret, err, entry, calls, metricsReg, genMetricsReg>>

\* line 57: generator.optimizer.apply_gradients
GenApply ==
    /\ UNCHANGED nonGanVars
    /\ pc = "gen_apply"
    /\ events' = Append(events, Event("g_apply", t))
    /\ genW' = GeneratorStep(genW, discW, gradsG[1]).genW
    /\ discW' = GeneratorStep(genW, discW, gradsG[1]).discW
    /\ genOptIter' = genOptIter + 1
    /\ pc' = "recompute"
    /\ UNCHANGED <<running, ganCompiled, genCompiled, discCompiled, n_critic,
                   discOptIter, t, batch, gradsD, gradsG, scores, metricAcc,
                   genMetricAcc, ret, err, entry, calls, metricsReg, genMetricsReg>>

\* lines 60-64: scores recomputed with training=False; compiled_loss again
Recompute ==
    /\ UNCHANGED nonGanVars
    /\ pc = "recompute"
    /\ events' = Append(events, Event("recompute", t))
    /\ IF discCompiled
       THEN /\ scores' = Score(batch, genW, discW)
            /\ pc' = "update_metrics" /\ err' = err
       ELSE /\ scores' = scores
            /\ pc' = "error" /\ err' = "TypeError"
    /\ UNCHANGED <<running, ganCompiled, genCompiled, discCompiled, n_critic, genW,
                   discW, genOptIter, discOptIter, t, batch, gradsD, gradsG, metricAcc,
                   genMetricAcc, ret, entry, calls, metricsReg, genMetricsReg>>

\* lines 67-68: both metric containers are updated; self.compiled_metrics is
\* None while the GAN itself is not compiled
TrainUpdateMetrics ==
    /\ UNCHANGED nonGanVars
    /\ pc = "update_metrics"
    /\ events' = Append(events, Event("update_metrics", t))
    /\ genMetricAcc' = [n |-> genMetricAcc.n + 1, last |-> scores]
    /\ IF ganCompiled
       THEN /\ metricAcc' = [n |-> metricAcc.n + 1, last |-> scores]
            /\ pc' = "collect" /\ err' = err
       ELSE /\ metricAcc' = metricAcc
            /\ pc' = "error" /\ err' = "AttributeError"
    /\ UNCHANGED <<running, ganCompiled, genCompiled, discCompiled, n_critic, genW,
                   discW, genOptIter, discOptIter, t, batch, gradsD, gradsG, scores,
                   ret, entry, calls, metricsReg, genMetricsReg>>

\* d[k] = v of a Python dict: a new key is added, an existing one overwritten
DictSet(d, k, v) == [x \in (DOMAIN d) \cup {k} |-> IF x = k THEN v ELSE d[x]]

\* lines 71-75: the five fixed entries, each tagged with where its value is from
FixedKeys == {"d_loss", "g_loss", "d_gradient_pen", "g_gradient_param", "d_gradient_param"}
FixedEntries == [k \in FixedKeys |-> <<"fixed", k>>]

GenMetricPrefixNone == ""

\* line 87: the prefix of the key of a generator metric
GenMetricPrefix == "g_"

\* lines 76-81 and 82-87: one assignment per metric, return_metrics[prefix + name]
RECURSIVE CollectMetrics(_, _, _, _)
CollectMetrics(d, names, prefix, tag) ==
    IF names = << >> THEN d
    ELSE CollectMetrics(DictSet(d, prefix \o Head(names), <<tag, Head(names)>>),
                        Tail(names), prefix, tag)

\* lines 71-88: return_metrics
ReturnMetrics(top, gen) ==
    CollectMetrics(CollectMetrics(FixedEntries, top, "", "metric"),
                   gen, GenMetricPrefix, "g_metric")

\* lines 71-88: the returned mapping; gradients_image and grads_parameters are
\* unbound when the critic sub-loop never ran
TrainCollect ==
    /\ UNCHANGED nonGanVars
    /\ pc = "collect"
    /\ IF gradsD = << >>
       THEN /\ pc' = "error" /\ err' = "UnboundLocalError" /\ ret' = ret
       ELSE /\ pc' = "returned" /\ err' = err
            /\ ret' = <<[step |-> "train", metrics |-> metricAcc, scores |-> scores,
                         mapping |-> ReturnMetrics(metricsReg, genMetricsReg)]>>
    /\ UNCHANGED <<running, ganCompiled, genCompiled, discCompiled, n_critic, genW,
                   discW, genOptIter, discOptIter, t, batch, gradsD, gradsG, scores,
                   metricAcc, genMetricAcc, entry, calls, metricsReg, genMetricsReg,
                   events>>

\* the scores test_step computes, lines 91-97
TestScores(b, gw, dw) == [batch |-> b, genW |-> gw, discW |-> dw]

\* self.compiled_metrics after lines 91-97 of test_step, which computed the
\* scores s: update_state is not called
TestMetricAcc(acc, s) == acc

TestWeightsTraining(w) == ApplyGradients(w, 1)

\* the weights after test_step's forward passes, lines 91-97: no optimizer runs
TestWeights(w) == w

\* test_step, lines 91-97
TestForward ==
    /\ UNCHANGED nonGanVars
    /\ pc = "ready"
    /\ events' = << >>
    /\ calls < MaxCalls
    /\ calls' = calls + 1
    /\ running' = "test"
    /\ entry' = Snapshot
    /\ ret' = << >>
    /\ \E b \in Batches :
         /\ batch' = b
         /\ IF discCompiled
            THEN /\ scores' = TestScores(b, genW, discW)
                 /\ metricAcc' = TestMetricAcc(metricAcc, TestScores(b, genW, discW))
                 /\ genW' = TestWeights(genW)
                 /\ discW' = TestWeights(discW)
                 /\ pc' = "test_collect" /\ err' = err
            ELSE /\ scores' = scores /\ metricAcc' = metricAcc
                 /\ genW' = genW /\ discW' = discW
                 /\ pc' = "error" /\ err' = "TypeError"
    /\ UNCHANGED <<ganCompiled, genCompiled, discCompiled, n_critic, genOptIter,
                   discOptIter, t, gradsD, gradsG, genMetricAcc, metricsReg,
                   genMetricsReg>>

\* test_step, lines 99-107
TestCollect ==
    /\ UNCHANGED nonGanVars
    /\ pc = "test_collect"
    /\ ret' = <<[step |-> "test", metrics |-> metricAcc, scores |-> scores,
                 mapping |-> CollectMetrics([k \in {"loss"} |-> <<"fixed", k>>],
                                            metricsReg, "", "metric")]>>
    /\ pc' = "returned"
    /\ UNCHANGED <<running, ganCompiled, genCompiled, discCompiled, n_critic, genW,
                   discW, genOptIter, discOptIter, t, batch, gradsD, gradsG, scores,
                   metricAcc, genMetricAcc, err, entry, calls, metricsReg,
                   genMetricsReg, events>>

\* the caller's loop goes on with the next batch
NextStep ==
    /\ UNCHANGED nonGanVars
    /\ pc = "returned"
    /\ calls < MaxCalls
    /\ pc' = "ready"
    /\ UNCHANGED <<running, ganCompiled, genCompiled, discCompiled, n_critic, genW,
                   discW, genOptIter, discOptIter, t, batch, gradsD, gradsG, scores,
                   metricAcc, genMetricAcc, ret, err, entry, calls, metricsReg,
                   genMetricsReg, events>>

GanNext ==
    \/ Compile \/ CheckCompiled \/ TrainStepEnter \/ CriticHead
    \/ CriticGradientPenalty \/ CriticForward \/ CriticBackward \/ CriticApply
    \/ GenForward \/ GenBackward \/ GenApply \/ Recompute \/ TrainUpdateMetrics
    \/ TrainCollect \/ TestForward \/ TestCollect \/ NextStep

(***************************************************************************)
(* get_predicted_map_Switzerland: tiling                                   *)
(***************************************************************************)
MaxPixels == 390      \* largest raster side
MaxTime   == 6        \* largest number of time steps

PixelSizes  == {100, 128, 260, 261, MaxPixels}
TimeWindows == {0, MaxTime - 1, MaxTime}
ImgSizes    == {64, 128, 256}
SeqSizes    == {2, 3}
Strategies  == {"crop", "overlap", "pad", "Crop"}

NoError == [type |-> "none", msg |-> <<>>]

\* np.math.floor(a / b) and np.math.ceil(a / b) for a >= 0, b > 0
Floor(a, b) == a \div b
Ceil(a, b)  == (a + b - 1) \div b

\* a bound of a Python slice adjusted to a sequence of `len` elements
AdjustIndex(v, step, len) ==
    IF v < 0
    THEN (IF v + len < 0 THEN (IF step < 0 THEN -1 ELSE 0) ELSE v + len)
    ELSE (IF v >= len THEN (IF step < 0 THEN len - 1 ELSE len) ELSE v)

\* the indices selected by slice(start, stop, step), step 1 or -1, in order
SliceIndices(start, stop, step, len) ==
    LET a == AdjustIndex(start, step, len)
        b == AdjustIndex(stop, step, len)
        n == IF step < 0 THEN (IF b < a THEN a - b ELSE 0)
                         ELSE (IF a < b THEN b - a ELSE 0)
    IN [i \in 1..n |-> a + (i - 1) * step]

Range(f) == {f[i] : i \in DOMAIN f}

\* line 193
NTimeSeq(tw, ss) == tw \div ss

\* line 195
CropRows(plon, s) == Floor(plon, s)
CropCols(plat, s) == Floor(plat, s)

\* line 197: x_1 of the crop tile in column j
CropSliceX(j, s, plat) == SliceIndices(j * s, (j + 1) * s, 1, plat)

\* line 198: y_1 of the crop tile in row i
CropSliceY(i, ncols, s, plon) ==
    SliceIndices((ncols - i - 1) * s, (ncols - i - 2) * s, -1, plon)

\* line 196: the time block k
TimeSlice(k, ss, tw) == SliceIndices(k * ss, (k + 1) * ss, 1, tw)

CropKeysDropTime(nrows, ncols, ntimeseq) ==
    {<<i, j, 0>> : i \in 0..(nrows - 1), j \in 0..(ncols - 1)}

\* lines 200-202: the keys of the crop dict
CropKeys(nrows, ncols, ntimeseq) ==
    {<<i, j, k>> : i \in 0..(nrows - 1), j \in 0..(ncols - 1), k \in 0..(ntimeseq - 1)}

\* lines 195-202
CropSquares(plat, plon, tw, s, ss) ==
    LET nrows == CropRows(plon, s)
        ncols == CropCols(plat, s)
    IN [key \in CropKeys(nrows, ncols, NTimeSeq(tw, ss)) |->
          [x_1  |-> CropSliceX(key[2], s, plat),
           y_1  |-> CropSliceY(key[1], ncols, s, plon),
           time |-> TimeSlice(key[3], ss, tw)]]

\* lines 204-205
OverlapCount(p, s) == Ceil(p, s)

\* line 206 (n >= 2)
OverlapDist(p, s, n) == (p - s) \div (n - 1)

\* lines 207-208
Leftovers(p, s, n) == p - ((n - 1) * OverlapDist(p, s, n) + s)

\* np.ones(k), np.zeros(k)
Ones(k)  == [i \in 1..k |-> 1]
Zeros(k) == [i \in 1..k |-> 0]

NoCumSum(v) == v

RECURSIVE CumSum(_)
\* v.cumsum(): element i is the sum of the elements up to i
CumSum(v) ==
    IF v = << >> THEN << >>
    ELSE LET c == CumSum(SubSeq(v, 1, Len(v) - 1))
         IN Append(c, (IF c = << >> THEN 0 ELSE c[Len(c)]) + v[Len(v)])

\* lines 209-211: concatenate([[0], ones(l), zeros(n - l - 1)]).cumsum(), 0-based
VecLeftovers(l, n) ==
    LET v == CumSum(<<0>> \o Ones(l) \o Zeros(n - l - 1))
    IN [i \in 0..(n - 1) |-> v[i + 1]]

\* lines 212-213: the start offsets along one axis
SlicesStart(p, s) ==
    LET n == OverlapCount(p, s)
        d == OverlapDist(p, s, n)
        v == VecLeftovers(Leftovers(p, s, n), n)
    IN [i \in 0..(n - 1) |-> i * d + v[i]]

\* line 215
OverlapSliceX(sx, plat) == SliceIndices(sx, sx + 128, 1, plat)

\* line 216
OverlapSliceY(sy, plon) ==
    IF sy # 0 THEN SliceIndices(sy + 127, sy - 1, -1, plon)
              ELSE SliceIndices(128, 0, -1, plon)

\* lines 214-220
OverlapSquares(plat, plon, tw, s, ss) ==
    LET xs == Range(SlicesStart(plat, s))
        ys == Range(SlicesStart(plon, s))
    IN [key \in {<<sx, sy, k>> : sx \in xs, sy \in ys, k \in 0..(NTimeSeq(tw, ss) - 1)} |->
          [x_1  |-> OverlapSliceX(key[1], plat),
           y_1  |-> OverlapSliceY(key[2], plon),
           time |-> TimeSlice(key[3], ss, tw)]]

\* line 222: the message of the ValueError, word by word
BorderMessage ==
    <<"Please", "chose", "one", "of", "crop", "or", "overlap", "for", "handling",
      "of", "image", "borders">>

BranchAcceptAll(hb) == IF hb = "overlap" THEN "overlap" ELSE "crop"

\* lines 194, 203, 221: the branch taken for a value of handle_borders
Branch(hb) == IF hb = "crop" THEN "crop"
              ELSE IF hb = "overlap" THEN "overlap"
              ELSE "raise"

TileInit ==
    /\ handle_borders \in Strategies
    /\ pixels_lat \in PixelSizes
    /\ pixels_lon \in PixelSizes
    /\ time_window \in TimeWindows
    /\ img_size \in ImgSizes
    /\ sequence_size \in SeqSizes
    /\ squares = << >>
    /\ tpc = "start"
    /\ terr = NoError

TileIdle ==
    /\ handle_borders = "crop" /\ pixels_lat = 128 /\ pixels_lon = 128
    /\ time_window = 0 /\ img_size = 128 /\ sequence_size = 2
    /\ squares = << >> /\ tpc = "start" /\ terr = NoError

\* lines 192-222: the tiles, or the exception
BuildSquares ==
    /\ UNCHANGED nonTileVars
    /\ tpc = "start"
    /\ LET br == Branch(handle_borders) IN
       CASE br = "crop" ->
              /\ squares' = CropSquares(pixels_lat, pixels_lon, time_window, img_size,
                                        sequence_size)
              /\ tpc' = "tiled" /\ terr' = terr
         [] br = "overlap" ->
              IF OverlapCount(pixels_lat, img_size) = 1
                 \/ OverlapCount(pixels_lon, img_size) = 1
              THEN /\ squares' = squares /\ tpc' = "error"
                   /\ terr' = [type |-> "ZeroDivisionError",
                               msg |-> <<"integer", "division", "or", "modulo", "by",
                                         "zero">>]
              ELSE /\ squares' = OverlapSquares(pixels_lat, pixels_lon, time_window,
                                                img_size, sequence_size)
                   /\ tpc' = "tiled" /\ terr' = terr
         [] OTHER ->
              /\ squares' = squares /\ tpc' = "error"
              /\ terr' = [type |-> "ValueError", msg |-> BorderMessage]
    /\ UNCHANGED <<handle_borders, pixels_lat, pixels_lon, time_window, img_size,
                   sequence_size>>

Shape(tile) == <<Len(tile.time), Len(tile.x_1), Len(tile.y_1)>>

\* lines 223-225: np.stack needs at least one array, and arrays of one shape
StackTensors ==
    /\ UNCHANGED nonTileVars
    /\ tpc = "tiled"
    /\ IF DOMAIN squares = {}
       THEN /\ tpc' = "error"
            /\ terr' = [type |-> "ValueError",
                        msg |-> <<"need", "at", "least", "one", "array", "to", "stack">>]
       ELSE IF \E a, b \in DOMAIN squares : Shape(squares[a]) # Shape(squares[b])
       THEN /\ tpc' = "error"
            /\ terr' = [type |-> "ValueError",
                        msg |-> <<"all", "input", "arrays", "must", "have", "the",
                                  "same", "shape">>]
       ELSE /\ tpc' = "stacked" /\ terr' = terr
    /\ UNCHANGED <<handle_borders, pixels_lat, pixels_lon, time_window, img_size,
                   sequence_size, squares>>

TileNext == BuildSquares \/ StackTensors

(***************************************************************************)
(* get_predicted_map_Switzerland: prediction and stitching                 *)
(***************************************************************************)
nb_sim == 50

\* no standard deviation (None), no prediction yet
NoPasses == << >>

PredIdle ==
    /\ average_preds = FALSE /\ gen_only = FALSE /\ ensemble_size = 0
    /\ sim = 0 /\ noiseDraws = 0 /\ pred = << >>
    /\ predictions = NoPasses /\ std_pred = NoPasses /\ tresult = << >>

\* the arguments of a call that goes on to the prediction: a raster the tiling
\* can stack, and the caller's wish for an ensemble
PredInit ==
    /\ handle_borders \in {"crop", "overlap"}
    /\ pixels_lat \in {260, MaxPixels}
    /\ pixels_lon \in {128, 260}
    /\ time_window \in {0, MaxTime}
    /\ img_size = 128
    /\ sequence_size \in SeqSizes
    /\ squares = << >> /\ tpc = "start" /\ terr = NoError
    /\ gen_only \in BOOLEAN
    /\ ensemble_size \in {0, 1, 2, nb_sim}
    /\ average_preds = (ensemble_size > 0)
    /\ sim = 0 /\ noiseDraws = 0 /\ pred = << >>
    /\ predictions = NoPasses /\ std_pred = NoPasses /\ tresult = << >>

predFrame == <<ganVars, evalVars, persVars, penVars, normVars, discVars, handle_borders, pixels_lat, pixels_lon, time_window,
               img_size, sequence_size, squares, terr, average_preds, gen_only,
               ensemble_size>>

\* lines 226-227: the z-score of the stacked tensor (the values are modelled by
\* NormalizeValues); line 228: gen
NormalizeTensors ==
    /\ tpc = "stacked"
    /\ tpc' = IF average_preds THEN "ensemble" ELSE "single"
    /\ UNCHANGED <<predFrame, sim, noiseDraws, pred, predictions, std_pred, tresult>>

NoiseReused(draws) == 1

\* lines 235, 241: network.noise_generator(...) is called for the pass: the
\* tensor drawn is a new one, numbered by the draws made so far
NoiseForPass(draws) == draws + 1

\* lines 234-235 and 240-241: one gen.predict; the prediction is tagged with the
\* noise it was run with (0: gen_only, the generator takes no noise)
PredictPass(draws) == IF gen_only THEN 0 ELSE NoiseForPass(draws)

\* lines 230-232: the loop head, for _ in range(nb_sim)
EnsembleHead ==
    /\ tpc = "ensemble"
    /\ tpc' = IF InRange(sim, nb_sim) THEN "ensemble_pass" ELSE "ensemble_reduce"
    /\ UNCHANGED <<predFrame, sim, noiseDraws, pred, predictions, std_pred, tresult>>

\* lines 233-236: one pass of the ensemble
EnsemblePass ==
    /\ tpc = "ensemble_pass"
    /\ noiseDraws' = IF gen_only THEN noiseDraws ELSE noiseDraws + 1
    /\ pred' = Append(pred, PredictPass(noiseDraws))
    /\ sim' = sim + 1
    /\ tpc' = "ensemble"
    /\ UNCHANGED <<predFrame, predictions, std_pred, tresult>>

\* lines 237-238: mean and standard deviation over the passes
EnsembleReduce ==
    /\ tpc = "ensemble_reduce"
    /\ predictions' = pred
    /\ std_pred' = pred
    /\ tpc' = "stitch"
    /\ UNCHANGED <<predFrame, sim, noiseDraws, pred, tresult>>

\* lines 239-241: the single pass
SinglePass ==
    /\ tpc = "single"
    /\ noiseDraws' = IF gen_only THEN noiseDraws ELSE noiseDraws + 1
    /\ predictions' = <<PredictPass(noiseDraws)>>
    /\ tpc' = "stitch"
    /\ UNCHANGED <<predFrame, sim, pred, std_pred, tresult>>

\* lines 242-263: the tiles are stitched; predicted_std is None without ensemble
Stitch ==
    /\ tpc = "stitch"
    /\ tresult' = <<[predicted_data |-> [tiles |-> DOMAIN squares, mean_of |-> predictions],
                     predicted_std  |-> IF average_preds
                                        THEN <<[tiles |-> DOMAIN squares, std_of |-> std_pred]>>
                                        ELSE << >>]>>
    /\ tpc' = "returned"
    /\ UNCHANGED <<predFrame, sim, noiseDraws, pred, predictions, std_pred>>

PredNext ==
    \/ BuildSquares \/ StackTensors \/ NormalizeTensors \/ EnsembleHead \/ EnsemblePass
    \/ EnsembleReduce \/ SinglePass \/ Stitch

(***************************************************************************)
(* GAN.save_weights / GAN.load_weights                                     *)
(*                                                                         *)
(* A path is the sequence of its components, the pieces between the        *)
(* separators: "ckpt/" is <<"ckpt", "">>, "./ckpt" is <<".", "ckpt">>.     *)
(***************************************************************************)
Roots == { <<"ckpt">>, <<"ckpt", "">>, <<".", "ckpt">>, <<"ckpt", "", "run">> }

RECURSIVE DropEmpty(_)
\* the components of a path that name something: "" and "." name nothing
DropEmpty(p) ==
    IF p = << >> THEN << >>
    ELSE IF Head(p) \in {"", "."} THEN DropEmpty(Tail(p))
    ELSE <<Head(p)>> \o DropEmpty(Tail(p))

\* os.path.join(a, name): a + name when a ends with the separator, else
\* a + sep + name; a itself is kept as written
OsPathJoin(a, name) ==
    IF a # << >> /\ a[Len(a)] = "" THEN SubSeq(a, 1, Len(a) - 1) \o <<name>>
    ELSE Append(a, name)

\* Path(a) / name: pathlib collapses repeated separators and "." components
PathDiv(a, name) == Append(DropEmpty(a), name)

\* the file the operating system opens for a path
Resolve(p) == DropEmpty(p)

\* lines 127-128: the names save_weights appends to filepath
SaveSubpath(m) == m

LoadSubpathSwapped(m) == IF m = "generator" THEN "discriminator" ELSE "generator"

\* lines 133-134: the names load_weights appends to filepath
LoadSubpath(m) == m

PersIdle ==
    /\ files = << >> /\ filepath = << >> /\ io = << >> /\ saved = << >>
    /\ ppc = "idle" /\ perr = "none"

\* a GAN whose sub-models hold some weights; nothing on disk
PersInit ==
    /\ GanIdle
    /\ PersIdle

persFrame == <<tileVars, evalVars, predVars, penVars, normVars, discVars, ganCompiled, genCompiled, discCompiled,
               n_critic, genOptIter, discOptIter, pc, t, batch, gradsD, gradsG, scores,
               metricAcc, genMetricAcc, ret, err, entry, calls, running, metricsReg,
               genMetricsReg, events>>

\* the weights of the sub-models change between two calls (training)
WeightsChange ==
    /\ UNCHANGED persFrame
    /\ genW' \in 0..(WeightMod - 1) /\ discW' \in 0..(WeightMod - 1)
    /\ <<genW', discW'>> # <<genW, discW>>
    /\ ppc' = "idle"
    /\ UNCHANGED <<files, filepath, io, saved, perr>>

\* lines 126-128: the generator is saved, then the discriminator
SaveWeights ==
    /\ UNCHANGED persFrame
    /\ \E root \in Roots :
         LET gpath == OsPathJoin(root, SaveSubpath("generator"))
             dpath == OsPathJoin(root, SaveSubpath("discriminator"))
             f1 == DictSet(files, Resolve(gpath), [model |-> "generator", w |-> genW])
             f2 == DictSet(f1, Resolve(dpath), [model |-> "discriminator", w |-> discW])
         IN /\ filepath' = root
            /\ files' = f2
            /\ io' = << [op |-> "write", model |-> "generator", path |-> gpath],
                        [op |-> "write", model |-> "discriminator", path |-> dpath] >>
            /\ saved' = DictSet(saved, Resolve(root), [genW |-> genW, discW |-> discW])
    /\ ppc' = "saved" /\ perr' = "none"
    /\ UNCHANGED <<genW, discW>>

\* lines 130-134: the generator is loaded, then the discriminator; a checkpoint
\* that does not exist raises NotFoundError
LoadWeights ==
    /\ UNCHANGED persFrame
    /\ \E root \in Roots :
         LET gpath == PathDiv(root, LoadSubpath("generator"))
             dpath == PathDiv(root, LoadSubpath("discriminator"))
             rd(m, p) == [op |-> "read", model |-> m, path |-> p]
         IN /\ filepath' = root
            /\ IF Resolve(gpath) \notin DOMAIN files
               THEN /\ ppc' = "error" /\ perr' = "NotFoundError"
                    /\ io' = <<rd("generator", gpath)>>
                    /\ UNCHANGED <<genW, discW>>
               ELSE /\ genW' = files[Resolve(gpath)].w
                    /\ IF Resolve(dpath) \notin DOMAIN files
                       THEN /\ ppc' = "error" /\ perr' = "NotFoundError"
                            /\ discW' = discW
                       ELSE /\ ppc' = "loaded" /\ perr' = "none"
                            /\ discW' = files[Resolve(dpath)].w
                    /\ io' = <<rd("generator", gpath), rd("discriminator", dpath)>>
    /\ UNCHANGED <<files, saved>>

PersNext == WeightsChange \/ SaveWeights \/ LoadWeights

(***************************************************************************)
(* Tensors: an array is a function from its index tuples (1-based) to its  *)
(* values; an axis is numbered from 0 as in numpy and tensorflow.          *)
(***************************************************************************)
RECURSIVE Indices(_)
\* the index tuples of an array of the given shape
Indices(shape) ==
    IF shape = << >> THEN { << >> }
    ELSE { <<i>> \o r : i \in 1..Head(shape), r \in Indices(Tail(shape)) }

RECURSIVE DropAxesFrom(_, _, _)
\* the index tuple without the positions of the reduced axes
DropAxesFrom(idx, axes, k) ==
    IF idx = << >> THEN << >>
    ELSE (IF k \in axes THEN << >> ELSE <<Head(idx)>>) \o DropAxesFrom(Tail(idx), axes, k + 1)

DropAxes(idx, axes) == DropAxesFrom(idx, axes, 0)

\* with keepdims=True a reduced axis stays, of length 1
KeepAxes(idx, axes) == [k \in DOMAIN idx |-> IF (k - 1) \in axes THEN 1 ELSE idx[k]]

RECURSIVE SumOver(_, _)
\* the sum of the values of x at the index tuples of S
SumOver(S, x) ==
    IF S = {} THEN 0
    ELSE LET i == CHOOSE j \in S : TRUE IN x[i] + SumOver(S \ {i}, x)

\* tf.reduce_sum(x, axis=axes): one value per index of the axes that are left
ReduceSum(x, axes) ==
    [j \in {DropAxes(i, axes) : i \in DOMAIN x} |->
        SumOver({i \in DOMAIN x : DropAxes(i, axes) = j}, x)]

\* x ** 2, element by element
Square(x) == [i \in DOMAIN x |-> x[i] * x[i]]

\* np.transpose(x, perm): axis k of the result is axis perm[k] of x
Transpose(x, perm) ==
    LET to(i) == [k \in DOMAIN perm |-> i[perm[k] + 1]]
    IN [j \in {to(i) : i \in DOMAIN x} |-> x[CHOOSE i \in DOMAIN x : to(i) = j]]

(***************************************************************************)
(* GAN.train_step, lines 35-37: the norm of the gradient penalty           *)
(***************************************************************************)
\* (batch, time, height, width, channel) of combined_high_res
HighResShape == <<2, 1, 1, 2, 2>>
GradValues == {0, 1}
gamma == 100

PenIdle == gradients_image = << >> /\ gradient_reg = << >> /\ gpc = "idle"

\* line 35: the gradient has the shape of combined_high_res
PenInit ==
    /\ gradients_image \in [Indices(HighResShape) -> GradValues]
    /\ gradient_reg = << >>
    /\ gpc = "gradient"

penFrame == <<ganVars, tileVars, evalVars, predVars, persVars, normVars, discVars>>

\* line 36: tf.sqrt(tf.reduce_sum(gradients_image ** 2, axis=[1, 2, 3])); the
\* square root is taken element by element, the norms are kept as squares
GradientNorm ==
    /\ UNCHANGED penFrame
    /\ gpc = "gradient"
    /\ gradients_image' = ReduceSum(Square(gradients_image), {1, 2, 3})
    /\ gpc' = "norm"
    /\ UNCHANGED gradient_reg

\* line 37: gamma * tf.reduce_mean((gradients_image - 1) ** 2), the mean over
\* every element of the norms
GradientReg ==
    /\ UNCHANGED penFrame
    /\ gpc = "norm"
    /\ gradient_reg' = <<[gamma |-> gamma, mean_over |-> DOMAIN gradients_image]>>
    /\ gpc' = "penalty"
    /\ UNCHANGED gradients_image

PenNext == GradientNorm \/ GradientReg

(***************************************************************************)
(* get_predicted_map_Switzerland, lines 224-227: the normalisation         *)
(***************************************************************************)
\* (tile, variable, time, first and second spatial axis) of the stacked tiles
StackedShape == <<2, 2, 1, 1, 2>>
TensorValues == {0, 1}

NormIdle == tensors = << >> /\ tstats = << >> /\ npc = "idle"

\* line 224: np.stack of the tiles' to_array(), variables first
NormInit ==
    /\ tensors \in [Indices(StackedShape) -> TensorValues]
    /\ tstats = << >>
    /\ npc = "stacked"

normFrame == <<ganVars, tileVars, evalVars, predVars, persVars, penVars, discVars>>

\* line 225: the variables become the last axis, the channels
TransposeTensors ==
    /\ UNCHANGED normFrame
    /\ npc = "stacked"
    /\ tensors' = Transpose(tensors, <<0, 2, 3, 4, 1>>)
    /\ npc' = "transposed"
    /\ UNCHANGED tstats

\* np.nanmean and np.nanstd over axes, keepdims=True, broadcast back: for each
\* element, the count, sum and sum of squares its mean and std are made of
Stats(x, axes) ==
    [i \in DOMAIN x |->
        LET S == {j \in DOMAIN x : KeepAxes(j, axes) = KeepAxes(i, axes)}
        IN [n |-> Cardinality(S), sum |-> SumOver(S, x), sumsq |-> SumOver(S, Square(x))]]

\* lines 226-227: (tensors - nanmean(axis=(0, 1, 2))) / nanstd(axis=(0, 1, 2))
NormalizeValues ==
    /\ UNCHANGED normFrame
    /\ npc = "transposed"
    /\ tstats' = Stats(tensors, {0, 1, 2})
    /\ npc' = "normalized"
    /\ UNCHANGED tensors

NormNext == TransposeTensors \/ NormalizeValues

(***************************************************************************)
(* make_discriminator: the spatial size of the tensors, layer by layer     *)
(***************************************************************************)
MaxImgSize == 256

\* the sizes make_discriminator is built for: multiples of 4 from 16 on
DiscSizes == {n \in 16..MaxImgSize : n % 4 = 0}

\* kl.ZeroPadding2D(padding=p): p pixels on each side
ZeroPadding2D(n, p) == n + 2 * p

\* the output size of a Conv2D with padding='valid' on an input of n pixels
ConvOut(n, kernel, strides) == ((n - kernel) \div strides) + 1

Conv(kernel, strides, n) == [kernel |-> kernel, strides |-> strides, input |-> n]

DiscIdle ==
    /\ low_res_size = 0 /\ high_res_size = 0 /\ xsize = 0 /\ shortcut = 0 /\ convs = << >>
    /\ dpc = "idle" /\ derr = "none"

DiscInit ==
    /\ high_res_size \in DiscSizes
    /\ low_res_size \in {high_res_size, high_res_size \div 4}
    /\ xsize = 0 /\ shortcut = 0 /\ convs = << >>
    /\ dpc = "inputs" /\ derr = "none"

discFrame == <<ganVars, tileVars, evalVars, predVars, persVars, penVars, normVars,
               low_res_size, high_res_size>>

\* lines 111-135: the inputs, the check of their sizes, the two branches and
\* their concatenation, all with padding='same'
DiscInputs ==
    /\ UNCHANGED discFrame
    /\ dpc = "inputs"
    /\ IF low_res_size # high_res_size
       THEN /\ dpc' = "error" /\ derr' = "NotImplementedError" /\ xsize' = xsize
       ELSE /\ dpc' = "loop1" /\ derr' = derr /\ xsize' = low_res_size
    /\ UNCHANGED <<shortcut, convs>>

\* a Conv2D on an input smaller than its kernel cannot be built: ValueError
ApplyConv(n, kernel, strides, next) ==
    /\ convs' = Append(convs, Conv(kernel, strides, n))
    /\ IF n < kernel
       THEN /\ dpc' = "error" /\ derr' = "ValueError" /\ xsize' = xsize
       ELSE /\ dpc' = next /\ derr' = derr /\ xsize' = ConvOut(n, kernel, strides)

\* lines 137-142: ZeroPadding2D(), Conv2D 7x7 with strides 3
Loop1Step ==
    /\ UNCHANGED discFrame
    /\ dpc = "loop1" /\ xsize >= 16
    /\ ApplyConv(ZeroPadding2D(xsize, 1), 7, 3, "loop1")
    /\ UNCHANGED shortcut

\* lines 137, 144: the first loop ends, shortcut = x
Loop1Exit ==
    /\ UNCHANGED discFrame
    /\ dpc = "loop1" /\ ~(xsize >= 16)
    /\ shortcut' = xsize
    /\ dpc' = "loop2"
    /\ UNCHANGED <<xsize, convs, derr>>

\* lines 145-150: ZeroPadding2D(), Conv2D 7x7 with strides 3
Loop2Step ==
    /\ UNCHANGED discFrame
    /\ dpc = "loop2" /\ xsize >= 4
    /\ ApplyConv(ZeroPadding2D(xsize, 1), 7, 3, "loop2")
    /\ UNCHANGED shortcut

ShortcutLayerFullKernel(hi, lo) == Conv(hi, 1, hi)

\* lines 16-32: the size shortcut_convolution gives an input of hi pixels for a
\* target of lo pixels: the kernel, the strides and the padded input
ShortcutLayer(hi, lo) ==
    IF lo = 1
    THEN Conv(hi, 1, hi)
    ELSE LET strides == Ceil(2 + hi, lo - 1)
             margin  == 2
             padding == Ceil(strides * (lo - 1) - hi, 2) + 1 + margin
             kernel_size == strides * (1 - lo) + hi + 2 * padding
         IN Conv(kernel_size, strides, ZeroPadding2D(hi, padding))

\* lines 145, 151: the second loop ends, shortcut = shortcut_convolution(...)
ShortcutConvolution ==
    /\ UNCHANGED discFrame
    /\ dpc = "loop2" /\ ~(xsize >= 4)
    /\ LET c == ShortcutLayer(shortcut, xsize) IN
         /\ convs' = Append(convs, c)
         /\ IF c.kernel < 1 \/ c.input < c.kernel
            THEN /\ dpc' = "error" /\ derr' = "ValueError" /\ shortcut' = shortcut
            ELSE /\ dpc' = "add" /\ derr' = derr
                 /\ shortcut' = ConvOut(c.input, c.kernel, c.strides)
    /\ UNCHANGED xsize

\* line 153: kl.add of two tensors of the same shape
AddShortcut ==
    /\ UNCHANGED discFrame
    /\ dpc = "add"
    /\ IF xsize # shortcut
       THEN dpc' = "error" /\ derr' = "ValueError"
       ELSE dpc' = "loop3" /\ derr' = derr
    /\ UNCHANGED <<xsize, shortcut, convs>>

\* lines 155-159: Conv2D 3x3 with strides 2, no padding
Loop3Step ==
    /\ UNCHANGED discFrame
    /\ dpc = "loop3" /\ xsize > 2
    /\ ApplyConv(xsize, 3, 2, "loop3")
    /\ UNCHANGED shortcut

\* lines 155, 160-164: the third loop ends; flatten, dense, pooling
Loop3Exit ==
    /\ UNCHANGED discFrame
    /\ dpc = "loop3" /\ ~(xsize > 2)
    /\ dpc' = "built"
    /\ UNCHANGED <<xsize, shortcut, convs, derr>>

DiscNext ==
    \/ DiscInputs \/ Loop1Step \/ Loop1Exit \/ Loop2Step \/ ShortcutConvolution
    \/ AddShortcut \/ Loop3Step \/ Loop3Exit

(***************************************************************************)
(* shortcut_convolution on its own: any input size, any target size        *)
(***************************************************************************)
MaxShortcutSize == 20

\* high_res_img of `shortcut` pixels, low_res_target of `xsize` pixels
ShortcutInit ==
    /\ low_res_size = 0 /\ high_res_size = 0
    /\ shortcut \in 1..MaxShortcutSize
    /\ xsize \in 1..shortcut
    /\ convs = << >>
    /\ dpc = "shortcut" /\ derr = "none"

\* lines 16-32: shortcut_convolution(shortcut, x, channels(x)); a Conv2D with
\* a kernel that is not positive, or larger than its input, raises ValueError
ShortcutCall ==
    /\ UNCHANGED discFrame
    /\ dpc = "shortcut"
    /\ LET c == ShortcutLayer(shortcut, xsize) IN
         /\ convs' = Append(convs, c)
         /\ IF c.kernel < 1 \/ c.strides < 1 \/ c.input < c.kernel
            THEN /\ dpc' = "error" /\ derr' = "ValueError" /\ shortcut' = shortcut
            ELSE /\ dpc' = "add" /\ derr' = derr
                 /\ shortcut' = ConvOut(c.input, c.kernel, c.strides)
    /\ UNCHANGED xsize

ShortcutNext == ShortcutCall \/ AddShortcut

(***************************************************************************)
(* compute_metrics_val_set: the loop over the checkpoints                  *)
(***************************************************************************)
MaxFreq   == 10       \* largest saving_frequency
MaxEpochs == 31       \* largest nb_epochs

SavingFreqs == {0, 1, 2, 3, MaxFreq}

ArangeInclusive(start, stop, step) ==
    LET n == IF stop >= start THEN ((stop - start) \div step) + 1 ELSE 0
    IN [i \in 1..n |-> start + (i - 1) * step]

\* np.arange(start, stop, step) for integers, step > 0
Arange(start, stop, step) ==
    LET n == IF stop > start THEN Ceil(stop - start, step) ELSE 0
    IN [i \in 1..n |-> start + (i - 1) * step]

EvalInit ==
    /\ saving_frequency \in SavingFreqs
    /\ nb_epochs \in 0..MaxEpochs
    /\ epochs = << >> /\ epochIdx = 0 /\ epoch = 0
    /\ preds = [weights |-> 0]
    /\ loaded = 0
    /\ metrics_data = << >>
    /\ epc = "start"
    /\ result = << >> /\ eerr = "none"

EvalIdle ==
    /\ saving_frequency = 1 /\ nb_epochs = 0
    /\ epochs = << >> /\ epochIdx = 0 /\ epoch = 0 /\ preds = [weights |-> 0] /\ loaded = 0
    /\ metrics_data = << >> /\ epc = "start" /\ result = << >> /\ eerr = "none"

\* lines 412-413: the empty list and the array of epochs; np.arange with a
\* zero step raises ZeroDivisionError
EvalEnter ==
    /\ UNCHANGED nonEvalVars
    /\ epc = "start"
    /\ metrics_data' = << >>
    /\ IF saving_frequency = 0
       THEN /\ epc' = "error" /\ eerr' = "ZeroDivisionError" /\ epochs' = epochs
       ELSE /\ epochs' = Arange(saving_frequency, nb_epochs, saving_frequency)
            /\ epc' = "loop" /\ eerr' = eerr
    /\ UNCHANGED <<saving_frequency, nb_epochs, epochIdx, epoch, preds, loaded, result>>

\* line 413: the next epoch of the array, or the end of the loop
EvalLoopHead ==
    /\ UNCHANGED nonEvalVars
    /\ epc = "loop"
    /\ IF epochIdx < Len(epochs)
       THEN /\ epochIdx' = epochIdx + 1
            /\ epoch' = epochs[epochIdx + 1]
            /\ epc' = "load"
       ELSE /\ epochIdx' = epochIdx /\ epoch' = epoch
            /\ epc' = "concat"
    /\ UNCHANGED <<saving_frequency, nb_epochs, epochs, preds, loaded, metrics_data,
                   result, eerr>>

RECURSIVE Digits(_)
\* the decimal digits of n >= 0
Digits(n) == IF n < 10 THEN <<n>> ELSE Append(Digits(n \div 10), n % 10)

FormatLastDigit(n) == <<0, n % 10>>

\* lines 411, 415: '{epoch:02d}', at least two digits, padded with zeros
Format02d(n) == IF n < 10 THEN <<0, n>> ELSE Digits(n)

RECURSIVE CheckpointOf(_)
\* the epoch whose weights training wrote under the name with these digits
CheckpointOf(ds) ==
    IF ds = << >> THEN 0 ELSE 10 * CheckpointOf(SubSeq(ds, 1, Len(ds) - 1)) + ds[Len(ds)]

\* line 415: network.load_weights of the checkpoint named after `epoch`
EvalLoadWeights ==
    /\ UNCHANGED nonEvalVars
    /\ epc = "load"
    /\ loaded' = CheckpointOf(Format02d(epoch))
    /\ epc' = "predict"
    /\ UNCHANGED <<saving_frequency, nb_epochs, epochs, epochIdx, epoch, preds,
                   metrics_data, result, eerr>>

\* lines 416-417: one inference pass with the weights the network holds
EvalPredict ==
    /\ UNCHANGED nonEvalVars
    /\ epc = "predict"
    /\ preds' = [weights |-> loaded]
    /\ epc' = "append"
    /\ UNCHANGED <<saving_frequency, nb_epochs, epochs, epochIdx, epoch, loaded,
                   metrics_data, result, eerr>>

\* the one-row frame of lines 419-421: indexed by the epoch, computed from preds
MetricRow(e, p) == [index |-> e, weights |-> p.weights]

\* lines 419-421
EvalAppend ==
    /\ UNCHANGED nonEvalVars
    /\ epc = "append"
    /\ metrics_data' = Append(metrics_data, MetricRow(epoch, preds))
    /\ epc' = "loop"
    /\ UNCHANGED <<saving_frequency, nb_epochs, epochs, epochIdx, epoch, preds, loaded,
                   result, eerr>>

\* lines 422-423: pd.concat raises ValueError on an empty list
EvalConcat ==
    /\ UNCHANGED nonEvalVars
    /\ epc = "concat"
    /\ IF metrics_data = << >>
       THEN /\ epc' = "error" /\ eerr' = "ValueError" /\ result' = result
       ELSE /\ epc' = "returned" /\ result' = metrics_data /\ eerr' = eerr
    /\ UNCHANGED <<saving_frequency, nb_epochs, epochs, epochIdx, epoch, preds, loaded,
                   metrics_data>>

EvalNext ==
    \/ EvalEnter \/ EvalLoopHead \/ EvalLoadWeights \/ EvalPredict \/ EvalAppend
    \/ EvalConcat

(***************************************************************************)
(* Specifications                                                          *)
(***************************************************************************)
OtherIdle == PenIdle /\ NormIdle /\ DiscIdle

InitGAN  == GanInit /\ TileIdle /\ EvalIdle /\ PredIdle /\ PersIdle /\ OtherIdle
InitTile == GanIdle /\ TileInit /\ EvalIdle /\ PredIdle /\ PersIdle /\ OtherIdle
InitEval == GanIdle /\ TileIdle /\ EvalInit /\ PredIdle /\ PersIdle /\ OtherIdle
InitPred == GanIdle /\ PredInit /\ EvalIdle /\ PersIdle /\ OtherIdle
InitPers == PersInit /\ TileIdle /\ EvalIdle /\ PredIdle /\ OtherIdle
InitPen  == GanIdle /\ TileIdle /\ EvalIdle /\ PredIdle /\ PersIdle /\ PenInit /\ NormIdle
            /\ DiscIdle
InitNorm == GanIdle /\ TileIdle /\ EvalIdle /\ PredIdle /\ PersIdle /\ PenIdle /\ NormInit
            /\ DiscIdle
InitDisc == GanIdle /\ TileIdle /\ EvalIdle /\ PredIdle /\ PersIdle /\ PenIdle /\ NormIdle
            /\ DiscInit
InitShortcut == GanIdle /\ TileIdle /\ EvalIdle /\ PredIdle /\ PersIdle /\ PenIdle
                /\ NormIdle /\ ShortcutInit

SpecGAN  == InitGAN /\ [][GanNext]_vars
SpecTile == InitTile /\ [][TileNext]_vars
SpecEval == InitEval /\ [][EvalNext]_vars
SpecPred == InitPred /\ [][PredNext]_vars
SpecPers == InitPers /\ [][PersNext]_vars
SpecPen  == InitPen /\ [][PenNext]_vars
SpecNorm == InitNorm /\ [][NormNext]_vars
SpecDisc == InitDisc /\ [][DiscNext]_vars
SpecShortcut == InitShortcut /\ [][ShortcutNext]_vars

(***************************************************************************)
(* Claims                                                                  *)
(***************************************************************************)

\* C1: when train_step returns, with n_critic >= 1, the discriminator optimizer
\* was applied exactly n_critic times and the generator optimizer exactly once
\* since the step was entered.
C1_TrainStepUpdateCounts ==
    (running = "train" /\ pc = "returned" /\ n_critic >= 1) =>
        /\ discOptIter = entry.discOptIter + n_critic
        /\ genOptIter = entry.genOptIter + 1

\* a second train_step of a GAN with n_critic = MaxCritic has returned
C1_Witness ==
    /\ running = "train" /\ pc = "returned" /\ n_critic = MaxCritic /\ calls = 2
    /\ entry.discOptIter > 0
    /\ discOptIter = entry.discOptIter + MaxCritic

\* C2: while test_step runs and after it returned, the trainable weights of the
\* generator and of the discriminator (and the optimizers' counters) are those
\* of the snapshot taken when it was entered.
C2_TestStepKeepsWeights ==
    running = "test" =>
        /\ genW = entry.genW /\ discW = entry.discW
        /\ genOptIter = entry.genOptIter /\ discOptIter = entry.discOptIter

\* test_step has returned on a GAN whose weights a train_step had changed
C2_Witness ==
    /\ running = "test" /\ pc = "returned" /\ ret # << >>
    /\ genW # 0 /\ discW # 0

\* C3: once the precondition check has run, it has failed whenever one of the
\* two sub-models is not compiled.
C3_CheckFailsUnlessBothCompiled ==
    (pc # "idle" /\ ~(genCompiled /\ discCompiled)) => err = "RuntimeError"

\* C4: the crop strategy builds floor(H/s) * floor(W/s) * floor(T/steps) tiles,
\* one per key (row, col, time_block); 2 rows and 2 columns for 260 x 260, s = 128.
C4_CropTileCount ==
    (handle_borders = "crop" /\ tpc # "start") =>
        /\ Cardinality(DOMAIN squares)
             = (pixels_lon \div img_size) * (pixels_lat \div img_size)
                 * (time_window \div sequence_size)
        /\ \A i \in 0..((pixels_lon \div img_size) - 1),
              j \in 0..((pixels_lat \div img_size) - 1),
              k \in 0..((time_window \div sequence_size) - 1) :
                <<i, j, k>> \in DOMAIN squares
        /\ (pixels_lon = 260 /\ pixels_lat = 260 /\ img_size = 128) =>
              {<<key[1], key[2]>> : key \in DOMAIN squares}
                 \in {{}, {<<0, 0>>, <<0, 1>>, <<1, 0>>, <<1, 1>>}}

\* the 260 x 260 raster tiled with tile size 128: 4 spatial tiles, 3 time blocks
C4_Witness ==
    /\ handle_borders = "crop" /\ tpc = "tiled"
    /\ pixels_lon = 260 /\ pixels_lat = 260 /\ img_size = 128
    /\ time_window = MaxTime /\ sequence_size = 2
    /\ Cardinality(DOMAIN squares) = 4 * (MaxTime \div 2)

\* C5: every tile, of either strategy, spans img_size indices in x_1 and in y_1.
C5_TilesAreSquare ==
    tpc \in {"tiled", "stacked"} =>
        \A key \in DOMAIN squares :
            /\ Len(squares[key].x_1) = img_size
            /\ Len(squares[key].y_1) = img_size

\* the pixel (x, y) lies in the tile of `key`
InTile(key, x, y) == x \in Range(squares[key].x_1) /\ y \in Range(squares[key].y_1)

\* C6: with the crop strategy every pixel with y_1 < nrows * s and x_1 < ncols * s
\* lies in exactly one tile of each time block, and no other pixel lies in a tile.
C6_CropCoverage ==
    (handle_borders = "crop" /\ tpc # "start") =>
        LET nrows == pixels_lon \div img_size
            ncols == pixels_lat \div img_size
        IN \A k \in 0..((time_window \div sequence_size) - 1) :
             \A x \in 0..(pixels_lat - 1), y \in 0..(pixels_lon - 1) :
                Cardinality({key \in DOMAIN squares : key[3] = k /\ InTile(key, x, y)})
                  = IF x < ncols * img_size /\ y < nrows * img_size THEN 1 ELSE 0

\* C7: with the overlap strategy, on a raster at least img_size high and wide,
\* the tiles are built, ceil(height/s) rows and ceil(width/s) columns of them,
\* and every pixel of the raster lies in a tile of each time block.
C7_OverlapCoverage ==
    (handle_borders = "overlap" /\ tpc # "start"
       /\ pixels_lat >= img_size /\ pixels_lon >= img_size) =>
        /\ terr.type # "ZeroDivisionError"
        /\ \A k \in 0..((time_window \div sequence_size) - 1) :
             /\ Cardinality({key[1] : key \in {q \in DOMAIN squares : q[3] = k}})
                  = Ceil(pixels_lat, img_size)
             /\ Cardinality({key[2] : key \in {q \in DOMAIN squares : q[3] = k}})
                  = Ceil(pixels_lon, img_size)
             /\ \A x \in 0..(pixels_lat - 1), y \in 0..(pixels_lon - 1) :
                  \E key \in DOMAIN squares : key[3] = k /\ InTile(key, x, y)

\* the epochs k * saving_frequency, k >= 1, strictly below nb_epochs, increasing
RECURSIVE ExpectedEpochs(_, _, _)
ExpectedEpochs(e, sf, nb) ==
    IF e >= nb THEN << >> ELSE <<e>> \o ExpectedEpochs(e + sf, sf, nb)

\* C8: compute_metrics_val_set evaluates exactly the epochs saving_frequency,
\* 2 * saving_frequency, ... below nb_epochs, and the record it returns has one
\* row per such epoch, in increasing order (10, 20, 30 for 10 and 31).
C8_RowsPerEpoch ==
    /\ (epc \in {"concat", "returned"} \/ (epc = "error" /\ eerr = "ValueError")) =>
          [i \in DOMAIN metrics_data |-> metrics_data[i].index]
             = ExpectedEpochs(saving_frequency, saving_frequency, nb_epochs)
    /\ epc = "returned" =>
          /\ [i \in DOMAIN result |-> result[i].index]
                = ExpectedEpochs(saving_frequency, saving_frequency, nb_epochs)
          /\ \A i \in DOMAIN result :
                /\ result[i].index = i * saving_frequency
                /\ result[i].index < nb_epochs
          /\ (Len(result) + 1) * saving_frequency >= nb_epochs
          /\ (saving_frequency = 10 /\ nb_epochs = 31) =>
                [i \in DOMAIN result |-> result[i].index] = <<10, 20, 30>>

\* the record of saving_frequency = 10, nb_epochs = 31 was returned with 3 rows
C8_Witness ==
    /\ epc = "returned" /\ saving_frequency = 10 /\ nb_epochs = 31
    /\ Len(result) = 3

\* C9 (as stated): a border strategy other than crop and overlap ends in a
\* configuration error whose message names the invalid value, with no tile built.
C9_ErrorNamesInvalidValue ==
    (handle_borders \notin {"crop", "overlap"} /\ tpc # "start") =>
        /\ tpc = "error" /\ terr.type = "ValueError"
        /\ handle_borders \in Range(terr.msg)
        /\ squares = << >>

\* C9 (amended): a border strategy other than crop and overlap ends in a
\* ValueError whose message names the two valid values, crop and overlap, and
\* no tile is built and nothing is stacked or predicted.
C9_ErrorNamesValidValues ==
    (handle_borders \notin {"crop", "overlap"} /\ tpc # "start") =>
        /\ tpc = "error" /\ terr.type = "ValueError"
        /\ {"crop", "overlap"} \subseteq Range(terr.msg)
        /\ squares = << >>

\* the call with handle_borders = "pad" has raised
C9_Witness ==
    /\ handle_borders = "pad" /\ tpc = "error" /\ terr.type = "ValueError"
    /\ squares = << >>

\* C10: when test_step returns, the metric values it reports come from
\* accumulators updated once with the scores of the batch just evaluated.
C10_TestStepUpdatesMetrics ==
    (running = "test" /\ pc = "returned") =>
        /\ ret[1].metrics.n = entry.metricN + 1
        /\ ret[1].metrics.last = ret[1].scores


\* the keys under which train_step stores the registered metrics
MetricKeys    == {metricsReg[i] : i \in DOMAIN metricsReg}
GenMetricKeys == {"g_" \o genMetricsReg[i] : i \in DOMAIN genMetricsReg}

FreshNoise(p) == \A i, j \in DOMAIN p : i # j => p[i] # p[j]

\* C12 (as stated): with an ensemble the generator is run ensemble_size times,
\* the caller's value, each pass with fresh noise, and a standard deviation is
\* returned; without, it is run once and the standard deviation is None.
C12_RunsEnsembleSizeTimes ==
    tpc = "returned" =>
        IF ensemble_size > 0
        THEN /\ Len(tresult[1].predicted_data.mean_of) = ensemble_size
             /\ tresult[1].predicted_std # << >>
        ELSE /\ Len(tresult[1].predicted_data.mean_of) = 1
             /\ tresult[1].predicted_std = << >>

\* C12 (amended): with average_preds the generator is run nb_sim = 50 times,
\* whatever size the caller wants, each pass with a newly drawn noise unless
\* gen_only, and a standard deviation over these passes is returned; without,
\* it is run once and the standard deviation is None.
C12_RunsNbSimTimes ==
    tpc = "returned" =>
        IF average_preds
        THEN /\ Len(tresult[1].predicted_data.mean_of) = 50
             /\ ~gen_only => FreshNoise(tresult[1].predicted_data.mean_of)
             /\ ~gen_only => noiseDraws = 50
             /\ tresult[1].predicted_std # << >>
             /\ tresult[1].predicted_std[1].std_of = tresult[1].predicted_data.mean_of
        ELSE /\ Len(tresult[1].predicted_data.mean_of) = 1
             /\ noiseDraws = (IF gen_only THEN 0 ELSE 1)
             /\ tresult[1].predicted_std = << >>

\* a caller who wants an ensemble of 2 got the result of the GAN's generator
C12_Witness ==
    /\ tpc = "returned" /\ ensemble_size = 2 /\ average_preds /\ ~gen_only
    /\ Len(pred) = 50 /\ tresult[1].predicted_std # << >>
    /\ DOMAIN squares # {}


\* C13: save_weights(root) writes the generator to root/generator and the
\* discriminator to root/discriminator, two different files, each holding the
\* weights of its own sub-model; a load_weights(root) that follows a
\* save_weights to the same directory reads these two files and leaves both
\* sub-models with the weights they had at the save.
C13_SaveLoadRestores ==
    LET root == Resolve(filepath)
        g == Append(root, "generator")
        d == Append(root, "discriminator")
    IN /\ ppc = "saved" =>
            /\ Len(io) = 2 /\ io[1].op = "write" /\ io[2].op = "write"
            /\ io[1].model = "generator" /\ Resolve(io[1].path) = g
            /\ io[2].model = "discriminator" /\ Resolve(io[2].path) = d
            /\ files[g] = [model |-> "generator", w |-> genW]
            /\ files[d] = [model |-> "discriminator", w |-> discW]
       /\ ppc = "loaded" =>
            /\ Len(io) = 2 /\ io[1].op = "read" /\ io[2].op = "read"
            /\ io[1].model = "generator" /\ Resolve(io[1].path) = g
            /\ io[2].model = "discriminator" /\ Resolve(io[2].path) = d
            /\ root \in DOMAIN saved
            /\ genW = saved[root].genW /\ discW = saved[root].discW
       /\ g # d
       /\ \A p \in DOMAIN files : files[p].model = p[Len(p)]

\* weights saved under "ckpt/" and changed afterwards are restored by a load
\* from "./ckpt", which names the same directory in another way
C13_Witness ==
    /\ ppc = "loaded" /\ filepath = <<".", "ckpt">>
    /\ <<"ckpt", "generator">> \in DOMAIN files
    /\ genW # discW
    /\ Cardinality(DOMAIN files) >= 4


\* what iteration i of the critic sub-loop does, in the order of lines 28-47
CriticEvents(i) ==
    << Event("gradient_penalty", i), Event("d_forward", i), Event("d_backward", i),
       Event("d_apply", i) >>

RECURSIVE CriticLoopEvents(_)
CriticLoopEvents(n) ==
    IF n = 0 THEN << >> ELSE CriticLoopEvents(n - 1) \o CriticEvents(n - 1)

\* what a whole train_step does
StepEvents(n) ==
    CriticLoopEvents(n) \o
    << Event("g_forward", n), Event("g_backward", n), Event("g_apply", n),
       Event("recompute", n), Event("update_metrics", n) >>

IsPrefix(p, q) == Len(p) <= Len(q) /\ SubSeq(q, 1, Len(p)) = p

\* C14: the events of one train_step come in one order: the critic iterations
\* one after the other, each complete (gradient penalty, forward, backward,
\* apply) before the next starts, then the generator's forward, backward and
\* apply, then the recomputation of the scores and the update of the metrics;
\* the recomputed scores are those of the sub-models as updated by the step.
C14_EventsTotallyOrdered ==
    running = "train" =>
        /\ IsPrefix(events, StepEvents(n_critic))
        /\ pc \in {"update_metrics", "collect", "returned"} =>
              /\ scores = [batch |-> batch, genW |-> genW, discW |-> discW]
              /\ genOptIter = entry.genOptIter + 1
              /\ discOptIter = entry.discOptIter + n_critic
        /\ pc \in {"collect", "returned"} => events = StepEvents(n_critic)

\* a step with two critic iterations returned, and the weights of both
\* sub-models are no longer those the step started with
C14_Witness ==
    /\ running = "train" /\ pc = "returned" /\ n_critic = 2
    /\ Len(events) = 13
    /\ genW # entry.genW /\ discW # entry.discW
    /\ scores.genW = genW /\ scores.discW = discW

CriticPcs == {"critic_head", "critic_gp", "critic_fwd", "critic_bwd", "critic_apply"}
GenPcs    == {"gen_fwd", "gen_bwd", "gen_apply"}
MetricPcs == {"recompute", "update_metrics", "collect"}

\* C15: no step of the critic sub-loop changes the generator's weights, no step
\* of the generator update changes the discriminator's, and the recomputation
\* and collection of the metrics change neither.
C15_FrameOfTrainStep ==
    [][ /\ pc \in CriticPcs => genW' = genW /\ genOptIter' = genOptIter
        /\ pc \in GenPcs => discW' = discW /\ discOptIter' = discOptIter
        /\ pc \in MetricPcs => genW' = genW /\ discW' = discW ]_vars

\* the generator was updated by a step whose critic sub-loop changed the
\* discriminator and left the generator as it was on entry
C15_Witness ==
    /\ running = "train" /\ pc = "recompute" /\ n_critic >= 1
    /\ discW # entry.discW /\ genW # entry.genW
    /\ Len(events) = 4 * n_critic + 3


Min(a, b) == IF a < b THEN a ELSE b

\* the start offsets the schedule gives along an axis of p pixels, tiles of s
ScheduledStarts(p, s) ==
    LET n == Ceil(p, s)
        stride == (p - s) \div (n - 1)
        leftover == p - ((n - 1) * stride + s)
    IN [i \in 0..(n - 1) |-> i * stride + Min(i, leftover)]

\* the first tile starts at 0, the last ends at p, the first `leftover` gaps are
\* stride + 1, the others stride, and no gap is larger than a tile
GoodStarts(st, p, s) ==
    LET n == Ceil(p, s)
        stride == (p - s) \div (n - 1)
        leftover == p - ((n - 1) * stride + s)
    IN /\ st[0] = 0
       /\ st[n - 1] + s = p
       /\ \A i \in 1..(n - 1) :
            /\ st[i] - st[i - 1] = (IF i <= leftover THEN stride + 1 ELSE stride)
            /\ st[i] - st[i - 1] <= s
            /\ st[i] - st[i - 1] >= 1

\* C16: with the overlap strategy and at least two tiles along an axis, the
\* tiles start at i * stride + min(i, leftover), i = 0 .. n-1: the first at 0,
\* the last ending at the last pixel, the first `leftover` gaps one pixel
\* longer than the others, and no gap longer than a tile.
C16_OverlapStartOffsets ==
    (handle_borders = "overlap" /\ tpc \in {"tiled", "stacked"} /\ squares # << >>) =>
        /\ pixels_lat > img_size =>
              /\ {key[1] : key \in DOMAIN squares}
                    = Range(ScheduledStarts(pixels_lat, img_size))
              /\ SlicesStart(pixels_lat, img_size) = ScheduledStarts(pixels_lat, img_size)
              /\ GoodStarts(SlicesStart(pixels_lat, img_size), pixels_lat, img_size)
        /\ pixels_lon > img_size =>
              /\ {key[2] : key \in DOMAIN squares}
                    = Range(ScheduledStarts(pixels_lon, img_size))
              /\ SlicesStart(pixels_lon, img_size) = ScheduledStarts(pixels_lon, img_size)
              /\ GoodStarts(SlicesStart(pixels_lon, img_size), pixels_lon, img_size)

\* 261 pixels in tiles of 128: three tiles, stride 66, one leftover pixel, the
\* tiles start at 0, 67 and 133
C16_Witness ==
    /\ handle_borders = "overlap" /\ tpc = "tiled"
    /\ pixels_lat = 261 /\ img_size = 128 /\ pixels_lon > img_size
    /\ {key[1] : key \in DOMAIN squares} = {0, 67, 133}


\* C17: the norm of the gradient penalty is one value per sample of the batch,
\* the squared gradient summed over the time, height, width and channel axes.
C17_NormPerSample ==
    gpc \in {"norm", "penalty"} =>
        /\ DOMAIN gradients_image = { <<b>> : b \in 1..HighResShape[1] }
        /\ gpc = "penalty" => Cardinality(gradient_reg[1].mean_over) = HighResShape[1]

\* C18: every element is normalised with the mean and standard deviation of
\* its channel over all tiles, times and both spatial axes, so two elements of
\* one channel are normalised with the same statistics.
C18_StatsPerChannel ==
    npc = "normalized" =>
        \A i, j \in DOMAIN tensors : i[5] = j[5] => tstats[i] = tstats[j]


\* C19: the checkpoints are processed in strictly increasing epoch order, the
\* weights of epoch e are loaded before the inference pass of e, and every row
\* of the record is computed from the weights of the epoch that indexes it.
C19_RowsUseTheirOwnWeights ==
    /\ \A i \in DOMAIN metrics_data :
          /\ metrics_data[i].index = epochs[i]
          /\ metrics_data[i].weights = metrics_data[i].index
          /\ \A j \in DOMAIN metrics_data : i < j => metrics_data[i].index < metrics_data[j].index
    /\ epc \in {"predict", "append"} =>
          /\ loaded = epoch
          /\ \A i \in DOMAIN metrics_data : metrics_data[i].index < epoch
    /\ epc = "append" => preds.weights = epoch
    /\ epc = "returned" => result = metrics_data /\ Len(result) = Len(epochs)

\* three checkpoints were evaluated, epochs 10, 20 and 30
C19_Witness ==
    /\ epc = "returned" /\ Len(result) = 3
    /\ result[1].index = 10 /\ result[2].weights = 20 /\ result[3].weights = 30


\* C20: for every image size that is a multiple of 4 and at least 16, no
\* convolution of the three loops is applied to an input smaller than its
\* kernel, every intermediate size is at least 1 and the final size is 1 or 2.
C20_LoopsEndAtOneOrTwo ==
    (low_res_size = high_res_size /\ high_res_size % 4 = 0 /\ high_res_size >= 16) =>
        /\ derr = "none"
        /\ \A i \in DOMAIN convs : convs[i].kernel <= convs[i].input
        /\ dpc \notin {"inputs", "error"} => xsize >= 1
        /\ dpc = "built" => xsize \in {1, 2}


\* C21: for every input size and every target size from 1 up to it, the
\* kernel shortcut_convolution computes is positive and not larger than the
\* padded input, and its output has the spatial size of the target, so the
\* addition that follows is between tensors of the same size.
C21_ShortcutMatchesTarget ==
    /\ derr = "none" /\ dpc # "error"
    /\ dpc \in {"add", "loop3"} =>
          /\ shortcut = xsize
          /\ Len(convs) = 1
          /\ convs[1].kernel >= 1 /\ convs[1].strides >= 1
          /\ convs[1].kernel <= convs[1].input
          /\ ConvOut(convs[1].input, convs[1].kernel, convs[1].strides) = xsize

\* an input of 13 pixels for a target of 5: padded to 23, kernel 7, strides 4,
\* and the shortcut was added to the main branch
C21_Witness ==
    /\ dpc = "loop3" /\ xsize = 5 /\ shortcut = 5
    /\ convs = <<[kernel |-> 7, strides |-> 4, input |-> 23]>>

====
